---- MODULE Spec2Model ----
(***************************************************************************)
(* Delivery of machine-error reports to AnythingLLM with bounded retry and *)
(* local-file fallback (AnythingLLMClient.send_machine_error and           *)
(* AnythingLLMClient._store_locally), called concurrently by the adapters  *)
(* of main.py on one shared client.  src/middleware/anythingllm_client.py  *)
(* carries the same two methods statement for statement.  Around them: the *)
(* reader get_stored_errors, the MQTT callback on_message and the request  *)
(* handlers that call send_machine_error from the event loop.              *)
(***************************************************************************)
EXTENDS Integers, Sequences, FiniteSets, TLC

\* ------------------------------------------------------------------ bounds
MaxRetriesCfg == 3      \* largest ANYTHINGLLM_RETRIES value explored
MaxCalls == 2           \* number of send_machine_error calls in a behaviour
MaxTime == 2            \* latest clock reading explored
MaxReads == 2           \* number of get_stored_errors calls in a behaviour
MaxDropped == 2         \* number of MQTT messages dropped in a behaviour
MaxCoSteps == 2         \* steps of the other coroutines in a behaviour
MaxThreads == 2         \* auto_error_generator threads created in a behaviour
MaxOpcRetries == 6      \* largest configured max_retries of the OPC UA server
MaxReconnects == 2      \* reconnect_failed_servers calls in a behaviour
MaxBroadcasts == 2      \* broadcast calls in a behaviour

\* --------------------------------------------------------- program values
ShortWait == 2
LongWait == 5
RuleLen == 60
OpcDefaultRetries == 3   \* max_retries of OPCUAServerConfig
MaxBackoff == 30        \* the cap of the wait of _connect_with_retry

\* The threads that call send_machine_error on the shared llm_client.
Adapters == {"generator", "mqtt"}

\* The event-loop thread, on which the request handlers manual_error and
\* test_error call send_machine_error, is a caller too.
Callers == Adapters \cup {"handler"}

\* Python's None and a dict key that is absent.
None == "None"
Missing == "<missing>"

\* (machine, code, description) triples handed in by the adapters: the
\* generator thread reports a demo error, the MQTT callback what it received.
Reports ==
    { [machine |-> "Press_01", code |-> "E001", description |-> "Pressure low"],
      [machine |-> "Pump_02", code |-> "E002", description |-> "Overheat"] }
ReportsOf(t) ==
    IF t = "generator"
    THEN {r \in Reports : r.machine = "Press_01"}
    ELSE {r \in Reports : r.machine = "Pump_02"}
NoReport == [machine |-> None, code |-> None, description |-> None]

\* Response bodies: text that is not JSON, JSON that is not an object, and
\* JSON objects with or without the textResponse / id keys.
HtmlBody == [kind |-> "html", textResponse |-> Missing, id |-> Missing]
ArrayBody == [kind |-> "array", textResponse |-> Missing, id |-> Missing]
FullBody == [kind |-> "object", textResponse |-> "ack", id |-> "r1"]
BareBody == [kind |-> "object", textResponse |-> Missing, id |-> Missing]
Bodies == {HtmlBody, ArrayBody, FullBody, BareBody}

\* What requests.post can do in one attempt: return a response or raise.
HttpResults ==
    { [kind |-> "response", status |-> 200, body |-> b, exc |-> None] :
          b \in Bodies }
    \cup
    { [kind |-> "response", status |-> 500, body |-> b, exc |-> None] :
          b \in {FullBody} }
    \cup
    { [kind |-> "raise", status |-> 0, body |-> HtmlBody, exc |-> e] :
          e \in {"Timeout", "ConnectionError", "ValueError"} }
NoResult == [kind |-> "none", status |-> 0, body |-> HtmlBody, exc |-> None]

\* Outcome dictionaries returned to the caller.
NoOutcome ==
    [success |-> FALSE, method |-> None, attempt |-> 0,
     anythingllm_response |-> None, response_id |-> None,
     json_file |-> Missing, import_file |-> Missing, error |-> Missing]

VARIABLES
    max_retries,    \* self.max_retries
    pc,             \* position of each adapter's call
    attempt,        \* loop variable of the retry loop (0-based)
    report,         \* arguments of the call in progress
    last,           \* result of the latest requests.post of the call
    posts,          \* requests.post calls issued by the call
    goodSeen,       \* attempts of the call answered by 200 and a JSON object
    onlyHttpErrors, \* every attempt of the call so far got a status other than 200
    wait_time,      \* argument of the pending time.sleep
    sleeps,         \* time.sleep calls made by the call
    errors,         \* the list read from the JSON file by _store_locally
    storeCalled,    \* _store_locally was entered by the call
    wroteJson,      \* the call rewrote the JSON file with its record
    wroteText,      \* the call appended its block to the text file
    ioRaised,       \* an I/O step of _store_locally raised in the call
    outcome,        \* the dictionary returned by the call
    jsonFile,       \* content of machine_errors_<day>.json
    textFile,       \* blocks of anythingllm_import_<day>.txt
    calls,          \* calls started so far
    now,            \* the wall clock read by datetime.now()
    timestamp,      \* `timestamp` of send_machine_error, embedded in the message
    stored_timestamp, \* `timestamp` of _store_locally, written into error_data
    date_str,       \* the day read by _store_locally for its file names
    storeLog,       \* the _store_locally calls that have returned, in order
    readResult,     \* what the latest get_stored_errors call did
    reads,          \* get_stored_errors calls made so far
    mqttLog,        \* what on_message did with the latest message
    mqttDropped,    \* messages on_message has dropped so far
    loopOwner,      \* the coroutine the event loop is running
    handlerPc,      \* position of the manual_error / test_error coroutine
    coSteps,        \* steps taken by the other coroutines of the event loop
    auto_generator_enabled, \* the module-level flag of main.py
    generator_thread, \* the module-level thread reference (0 is None)
    genPc,          \* position of each auto_error_generator thread
    error_count,    \* `error_count` of each auto_error_generator thread
    lifespanPc,     \* position of the lifespan context manager
    restartPc,      \* position of restart_auto_generator
    connected,      \* OPCUAServerConnection.connected of the server
    retry_count,    \* config.retry_count of the server
    opc_max_retries, \* config.max_retries of the server
    opcPc,          \* position of the server's _connect_with_retry task
    opcAttempt,     \* loop variable of _connect_with_retry
    opcResult,      \* what _connect_with_retry returned
    connectCalls,   \* connect() calls made by _connect_with_retry
    opcWait,        \* argument of the pending asyncio.sleep
    opcSleeps,      \* asyncio.sleep calls made by _connect_with_retry
    opcLast,        \* how the latest connect() call ended
    reconnects,     \* reconnect_failed_servers calls made so far
    reconnectCalls, \* connect() calls made by reconnect_failed_servers
    clients,        \* the list `clients` of middleware.py
    wsPc,           \* position of each websocket_endpoint coroutine
    peerOpen,       \* the peer of each socket has not closed it
    bPc,            \* position of each broadcast call
    bIdx,           \* index of the list iterator of `for ws in clients`
    bCur,           \* the socket a broadcast call is sending to
    bDisc,          \* `disconnected` of each broadcast call
    bSent,          \* the sockets a broadcast call has sent to
    broadcasts      \* broadcast calls started so far

callVars == <<pc, attempt, report, last, posts, goodSeen, onlyHttpErrors, wait_time,
              sleeps, errors, storeCalled, wroteJson, wroteText, ioRaised, outcome>>
fileVars == <<jsonFile, textFile>>
readerVars == <<readResult, reads>>
mqttVars == <<mqttLog, mqttDropped>>
loopVars == <<loopOwner, handlerPc, coSteps>>
genVars == <<auto_generator_enabled, generator_thread, genPc, error_count,
             lifespanPc, restartPc>>
opcVars == <<connected, retry_count, opc_max_retries, opcPc, opcAttempt, opcResult,
             connectCalls, opcWait, opcSleeps, opcLast, reconnects, reconnectCalls>>
wsVars == <<clients, wsPc, peerOpen, bPc, bIdx, bCur, bDisc, bSent, broadcasts>>
deviceVars == <<opcVars, wsVars>>
\* What no step of send_machine_error touches.
aroundVars == <<now, readerVars, mqttVars, loopVars, deviceVars>>
vars == <<max_retries, callVars, fileVars, calls, timestamp, stored_timestamp,
          storeLog, genVars, aroundVars>>

\* The sockets accepted by websocket_endpoint, and the callers of broadcast:
\* the websocket_endpoint coroutine of each socket and chat_send.
Sockets == {"ws1", "ws2"}
Broadcasters == Sockets \cup {"chat_send"}

\* The auto_error_generator threads, in the order of their creation.
GenThreads == 1..MaxThreads

\* The calendar date of a clock value: the last instant of the clock is the
\* first one of the next day.
DateOf(ts) == IF ts < MaxTime THEN 0 ELSE 1

\* ------------------------------------------------------------ local files
\* The JSON file is absent, holds a JSON list, or holds text that json.load
\* rejects (for instance after an interrupted rewrite).
AbsentFile == [state |-> "absent", list |-> <<>>]
MalformedFile == [state |-> "malformed", list |-> <<>>]
ListFile(l) == [state |-> "list", list |-> l]

\* The two files of the day, as named by _store_locally.
JsonFilename == "/app/data/machine_errors_<date_str>.json"
ImportFilename == "/app/data/anythingllm_import_<date_str>.txt"

\* error_data of _store_locally: its own timestamp and the arguments.
ErrorData(r, ts) ==
    [timestamp |-> ts, machine |-> r.machine, code |-> r.code,
     description |-> r.description]

\* error_data['anythingllm_import_text']: header, fields and the rule "="*60.
ImportText(r, ts) ==
    [header |-> "[Maschinenfehler OPC UA]", machine |-> r.machine,
     code |-> r.code, description |-> r.description, timestamp |-> ts,
     rule |-> RuleLen]

\* ------------------------------------------------------------ one attempt
\* response.json(): the parsed value, or JSONDecodeError for non-JSON text.
ResponseJson(body) ==
    IF body.kind = "html" THEN "JSONDecodeError" ELSE body.kind

\* Variant: result.get(key) without the default.
DictGetNoDefault(body, key, default) ==
    IF body[key] = Missing THEN None ELSE body[key]

\* result.get(key, default) on a parsed JSON object.
DictGet(body, key, default) ==
    IF body[key] = Missing THEN default ELSE body[key]

\* Variant: the body of a 200 response is not parsed before the return.
DispositionNoParse(res) ==
    IF res.kind = "raise"
    THEN IF res.exc \in {"Timeout", "ConnectionError"} THEN "continue" ELSE "break"
    ELSE IF res.status = 200 THEN "return" ELSE "continue"

\* Variant: requests.exceptions.Timeout has no except clause of its own and
\* is caught by `except Exception`.
DispositionTimeoutBreaks(res) ==
    IF res.kind = "raise"
    THEN IF res.exc = "ConnectionError" THEN "continue" ELSE "break"
    ELSE IF res.status = 200
         THEN CASE res.body.kind = "html" -> "continue"
                [] res.body.kind = "object" -> "return"
                [] OTHER -> "break"
         ELSE "continue"

\* Variant: `except Exception` logs and lacks the break.
DispositionNoBreak(res) ==
    IF res.kind = "raise"
    THEN "continue"
    ELSE IF res.status = 200
         THEN CASE res.body.kind = "html" -> "continue"
                [] res.body.kind = "object" -> "return"
                [] OTHER -> "continue"
         ELSE "continue"

\* Variant: the retry loop gives up when auto_generator_enabled is cleared.
DispositionCancellable(res) ==
    IF ~auto_generator_enabled
    THEN "break"
    ELSE IF res.kind = "raise"
         THEN IF res.exc \in {"Timeout", "ConnectionError"}
              THEN "continue"
              ELSE "break"
         ELSE IF res.status = 200
              THEN CASE res.body.kind = "html" -> "continue"
                     [] res.body.kind = "object" -> "return"
                     [] OTHER -> "break"
              ELSE "continue"

\* How one iteration of the retry loop leaves the try statement:
\*   "return"   the return inside the inner try,
\*   "continue" fall through to the wait after the try statement,
\*   "break"    the break of `except Exception`.
Disposition(res) ==
    IF res.kind = "raise"
    THEN IF res.exc \in {"Timeout", "ConnectionError"}
         THEN "continue"
         ELSE "break"
    ELSE IF res.status = 200
         THEN CASE ResponseJson(res.body) = "JSONDecodeError" -> "continue"
                [] ResponseJson(res.body) = "object" -> "return"
                \* result.get on a list raises AttributeError, which only
                \* the outer `except Exception` catches
                [] OTHER -> "break"
         ELSE "continue"

\* sys.exc_info()[1] in the frames that call send_machine_error: every call
\* site is in a try body, none in an except clause.
CallerExcInfo == None

\* str(sys.exc_info()[1]) evaluated after the try statement: the except
\* clauses have been left, so the exception of this attempt is no longer the
\* one being handled and the caller's state is visible again.
ExcInfoAfterTry(res) == CallerExcInfo

\* Variant: the exception state consulted is one slot for the whole process,
\* holding the latest exception of any caller.
WaitTimeShared(res) ==
    IF \E u \in Callers : last[u].exc = "Timeout" THEN LongWait ELSE ShortWait

\* wait_time = 5 if 'Timeout' in str(sys.exc_info()[1]) else 2
WaitTime(res) ==
    IF ExcInfoAfterTry(res) = "Timeout" THEN LongWait ELSE ShortWait

\* Variant: the 0-based loop variable is reported as the attempt.
ApiOutcomeZeroBased(res, att) ==
    [success |-> TRUE, method |-> "api", attempt |-> att,
     anythingllm_response |-> DictGet(res.body, "textResponse", ""),
     response_id |-> DictGet(res.body, "id", None),
     json_file |-> Missing, import_file |-> Missing, error |-> Missing]

\* The dictionary returned on success.
ApiOutcome(res, att) ==
    [success |-> TRUE, method |-> "api", attempt |-> att + 1,
     anythingllm_response |-> DictGet(res.body, "textResponse", ""),
     response_id |-> DictGet(res.body, "id", None),
     json_file |-> Missing, import_file |-> Missing, error |-> Missing]

\* Variant: the success dictionary of _store_locally without the file names.
LocalOutcomeNoPaths ==
    [success |-> TRUE, method |-> "local_storage", attempt |-> 0,
     anythingllm_response |-> None, response_id |-> None,
     json_file |-> Missing, import_file |-> Missing, error |-> Missing]

\* The dictionaries returned by _store_locally.
LocalOutcome ==
    [success |-> TRUE, method |-> "local_storage", attempt |-> 0,
     anythingllm_response |-> None, response_id |-> None,
     json_file |-> JsonFilename, import_file |-> ImportFilename,
     error |-> Missing]
\* Variant: the except clause of _store_locally reports success.
FailedOutcomeSuccess ==
    [success |-> TRUE, method |-> "failed", attempt |-> 0,
     anythingllm_response |-> None, response_id |-> None,
     json_file |-> Missing, import_file |-> Missing, error |-> "str(e)"]

FailedOutcome ==
    [success |-> FALSE, method |-> "failed", attempt |-> 0,
     anythingllm_response |-> None, response_id |-> None,
     json_file |-> Missing, import_file |-> Missing, error |-> "str(e)"]

\* A 200 response whose body is a JSON object.
GoodResponse(res) ==
    res.kind = "response" /\ res.status = 200 /\ res.body.kind = "object"

\* A response whose status is not 200.
ErrorStatus(res) == res.kind = "response" /\ res.status # 200

\* Variant: the except clause of _store_locally logs and returns nothing.
StoreOutcomeNoReturn(raised) == IF raised THEN NoOutcome ELSE LocalOutcome

\* What _store_locally returns: the dictionary of its except clause when an
\* I/O step raised, the one at the end of its try body otherwise.
StoreOutcome(raised) == IF raised THEN FailedOutcome ELSE LocalOutcome

\* ------------------------------------------------- what the reader returns
\* What a get_stored_errors call did: the value it returned, or that it
\* raised; io records whether open / read worked and saw what the file was.
\* NoRead: no call yet.
NoRead ==
    [raised |-> FALSE, returned |-> FALSE, value |-> <<>>, io |-> TRUE,
     saw |-> None]

\* Variant: get_stored_errors without its except clause.
GetStoredErrorsNoExcept(file, okIo) ==
    IF file.state = "absent"
    THEN [raised |-> FALSE, returned |-> TRUE, value |-> <<>>, io |-> okIo,
          saw |-> file.state]
    ELSE IF okIo /\ file.state = "list"
         THEN [raised |-> FALSE, returned |-> TRUE, value |-> file.list,
               io |-> okIo, saw |-> file.state]
         ELSE [raised |-> TRUE, returned |-> FALSE, value |-> <<>>, io |-> okIo,
          saw |-> file.state]

\* get_stored_errors: [] when os.path.exists is false, the parsed content
\* when open and json.load work, [] from the except clause when one of them
\* raises.
GetStoredErrors(file, okIo) ==
    IF file.state = "absent"
    THEN [raised |-> FALSE, returned |-> TRUE, value |-> <<>>, io |-> okIo,
          saw |-> file.state]
    ELSE IF okIo /\ file.state = "list"
         THEN [raised |-> FALSE, returned |-> TRUE, value |-> file.list,
               io |-> okIo, saw |-> file.state]
         ELSE [raised |-> FALSE, returned |-> TRUE, value |-> <<>>, io |-> okIo,
          saw |-> file.state]

\* ---------------------------------------------------------------- initial
InitFor(retries, opcRetries) ==
    /\ max_retries \in retries
    /\ pc = [t \in Callers |-> "idle"]
    /\ attempt = [t \in Callers |-> 0]
    /\ report = [t \in Callers |-> NoReport]
    /\ last = [t \in Callers |-> NoResult]
    /\ posts = [t \in Callers |-> 0]
    /\ goodSeen = [t \in Callers |-> 0]
    /\ onlyHttpErrors = [t \in Callers |-> TRUE]
    /\ wait_time = [t \in Callers |-> 0]
    /\ sleeps = [t \in Callers |-> 0]
    /\ errors = [t \in Callers |-> <<>>]
    /\ storeCalled = [t \in Callers |-> FALSE]
    /\ wroteJson = [t \in Callers |-> FALSE]
    /\ wroteText = [t \in Callers |-> FALSE]
    /\ ioRaised = [t \in Callers |-> FALSE]
    /\ outcome = [t \in Callers |-> NoOutcome]
    /\ jsonFile = AbsentFile
    /\ textFile = <<>>
    /\ calls = 0
    /\ now = 0
    /\ timestamp = [t \in Callers |-> 0]
    /\ stored_timestamp = [t \in Callers |-> 0]
    /\ date_str = [t \in Callers |-> 0]
    /\ storeLog = <<>>
    /\ readResult = NoRead
    /\ reads = 0
    /\ mqttLog = None
    /\ mqttDropped = 0
    /\ loopOwner = None
    /\ handlerPc = "pending"
    /\ coSteps = 0
    /\ auto_generator_enabled = TRUE
    /\ generator_thread = 0
    /\ genPc = [g \in GenThreads |-> "unborn"]
    /\ error_count = [g \in GenThreads |-> 0]
    /\ lifespanPc = "startup"
    /\ restartPc = "idle"
    /\ connected = FALSE
    /\ retry_count = 0
    /\ opc_max_retries \in opcRetries
    /\ opcPc = "idle"
    /\ opcAttempt = 0
    /\ opcResult = None
    /\ connectCalls = 0
    /\ opcWait = 0
    /\ opcSleeps = 0
    /\ opcLast = None
    /\ reconnects = 0
    /\ reconnectCalls = 0
    /\ clients = <<>>
    /\ wsPc = [ws \in Sockets |-> "new"]
    /\ peerOpen = [ws \in Sockets |-> TRUE]
    /\ bPc = [b \in Broadcasters |-> "idle"]
    /\ bIdx = [b \in Broadcasters |-> 0]
    /\ bCur = [b \in Broadcasters |-> None]
    /\ bDisc = [b \in Broadcasters |-> <<>>]
    /\ bSent = [b \in Broadcasters |-> {}]
    /\ broadcasts = 0

\* ANYTHINGLLM_RETRIES is a non-negative number.
Init == InitFor(0..MaxRetriesCfg, {OpcDefaultRetries})

\* ANYTHINGLLM_RETRIES is any integer, negative ones included.
AnyRetriesInit == InitFor((0 - MaxRetriesCfg)..MaxRetriesCfg, {OpcDefaultRetries})

\* ---------------------------------------------------------------- actions
\* Variant: the first attempt is made whatever max_retries is.
StartAlwaysPosts(t, r) ==
    /\ pc[t] = "idle"
    /\ calls < MaxCalls
    /\ calls' = calls + 1
    /\ report' = [report EXCEPT ![t] = r]
    /\ attempt' = [attempt EXCEPT ![t] = 0]
    /\ timestamp' = [timestamp EXCEPT ![t] = now]
    /\ pc' = [pc EXCEPT ![t] = "post"]
    /\ UNCHANGED <<max_retries, last, posts, goodSeen, onlyHttpErrors, wait_time, sleeps,
                   errors, storeCalled, wroteJson, wroteText, ioRaised,
                   outcome, fileVars>>
    /\ stored_timestamp' = IF pc'[t] = "store"
                           THEN [stored_timestamp EXCEPT ![t] = now]
                           ELSE stored_timestamp
    /\ UNCHANGED <<date_str, storeLog, genVars, aroundVars>>

\* An adapter calls send_machine_error(machine, code, description).  With
\* max_retries <= 0 the loop body never runs and _store_locally is entered at
\* once, where it takes its timestamp.
Start(t, r) ==
    /\ pc[t] = "idle"
    /\ calls < MaxCalls
    /\ calls' = calls + 1
    /\ report' = [report EXCEPT ![t] = r]
    /\ attempt' = [attempt EXCEPT ![t] = 0]
    /\ timestamp' = [timestamp EXCEPT ![t] = now]
    /\ pc' = [pc EXCEPT ![t] = IF 0 < max_retries THEN "post" ELSE "store"]
    /\ UNCHANGED <<max_retries, last, posts, goodSeen, onlyHttpErrors, wait_time, sleeps,
                   errors, storeCalled, wroteJson, wroteText, ioRaised,
                   outcome, fileVars>>
    /\ stored_timestamp' = IF pc'[t] = "store"
                           THEN [stored_timestamp EXCEPT ![t] = now]
                           ELSE stored_timestamp
    /\ UNCHANGED <<date_str, storeLog, genVars, aroundVars>>

\* Variant: the wait is made after the last attempt too.
PostSleepsAfterLast(t, res) ==
    /\ pc[t] = "post"
    /\ posts' = [posts EXCEPT ![t] = @ + 1]
    /\ last' = [last EXCEPT ![t] = res]
    /\ goodSeen' = [goodSeen EXCEPT ![t] = IF GoodResponse(res) THEN @ + 1 ELSE @]
    /\ onlyHttpErrors' = [onlyHttpErrors EXCEPT ![t] = @ /\ ErrorStatus(res)]
    /\ CASE Disposition(res) = "return" ->
              /\ outcome' = [outcome EXCEPT ![t] = ApiOutcome(res, attempt[t])]
              /\ pc' = [pc EXCEPT ![t] = "done"]
              /\ UNCHANGED <<attempt, wait_time>>
         [] Disposition(res) = "break" ->
              /\ pc' = [pc EXCEPT ![t] = "store"]
              /\ UNCHANGED <<attempt, wait_time, outcome>>
         [] OTHER ->
              IF attempt[t] < max_retries
              THEN /\ wait_time' = [wait_time EXCEPT ![t] = WaitTime(res)]
                   /\ pc' = [pc EXCEPT ![t] = "sleep"]
                   /\ UNCHANGED <<attempt, outcome>>
              ELSE /\ pc' = [pc EXCEPT ![t] = "store"]
                   /\ UNCHANGED <<attempt, wait_time, outcome>>
    /\ UNCHANGED <<max_retries, report, sleeps, errors, storeCalled,
                   wroteJson, wroteText, ioRaised, fileVars, calls>>
    /\ stored_timestamp' = IF pc'[t] = "store"
                           THEN [stored_timestamp EXCEPT ![t] = now]
                           ELSE stored_timestamp
    /\ UNCHANGED <<timestamp, date_str, storeLog, genVars, aroundVars>>

\* One iteration of the retry loop up to the time.sleep call: the POST, the
\* handling of its result and the choice of the wait.  When the loop ends
\* without a return, _store_locally is entered and takes its timestamp.
Post(t, res) ==
    /\ pc[t] = "post"
    /\ posts' = [posts EXCEPT ![t] = @ + 1]
    /\ last' = [last EXCEPT ![t] = res]
    /\ goodSeen' = [goodSeen EXCEPT ![t] = IF GoodResponse(res) THEN @ + 1 ELSE @]
    /\ onlyHttpErrors' = [onlyHttpErrors EXCEPT ![t] = @ /\ ErrorStatus(res)]
    /\ CASE Disposition(res) = "return" ->
              /\ outcome' = [outcome EXCEPT ![t] = ApiOutcome(res, attempt[t])]
              /\ pc' = [pc EXCEPT ![t] = "done"]
              /\ UNCHANGED <<attempt, wait_time>>
         [] Disposition(res) = "break" ->
              /\ pc' = [pc EXCEPT ![t] = "store"]
              /\ UNCHANGED <<attempt, wait_time, outcome>>
         [] OTHER ->
              IF attempt[t] < max_retries - 1
              THEN /\ wait_time' = [wait_time EXCEPT ![t] = WaitTime(res)]
                   /\ pc' = [pc EXCEPT ![t] = "sleep"]
                   /\ UNCHANGED <<attempt, outcome>>
              ELSE /\ pc' = [pc EXCEPT ![t] = "store"]
                   /\ UNCHANGED <<attempt, wait_time, outcome>>
    /\ UNCHANGED <<max_retries, report, sleeps, errors, storeCalled,
                   wroteJson, wroteText, ioRaised, fileVars, calls>>
    /\ stored_timestamp' = IF pc'[t] = "store"
                           THEN [stored_timestamp EXCEPT ![t] = now]
                           ELSE stored_timestamp
    /\ UNCHANGED <<timestamp, date_str, storeLog, genVars, aroundVars>>

\* Variant: the loop variable is not advanced after the sleep.
SleepNoAdvance(t) ==
    /\ pc[t] = "sleep"
    /\ sleeps' = [sleeps EXCEPT ![t] = @ + 1]
    /\ pc' = [pc EXCEPT ![t] = "post"]
    /\ UNCHANGED <<max_retries, attempt, report, last, posts, goodSeen,
                   onlyHttpErrors, wait_time, errors, storeCalled, wroteJson,
                   wroteText, ioRaised, outcome, fileVars, calls>>
    /\ UNCHANGED <<timestamp, stored_timestamp, date_str, storeLog, genVars, aroundVars>>

\* time.sleep(wait_time) returns and the loop takes its next iteration.
Sleep(t) ==
    /\ pc[t] = "sleep"
    /\ sleeps' = [sleeps EXCEPT ![t] = @ + 1]
    /\ attempt' = [attempt EXCEPT ![t] = @ + 1]
    /\ pc' = [pc EXCEPT ![t] = "post"]
    /\ UNCHANGED <<max_retries, report, last, posts, goodSeen, onlyHttpErrors, wait_time,
                   errors, storeCalled, wroteJson, wroteText, ioRaised,
                   outcome, fileVars, calls>>
    /\ UNCHANGED <<timestamp, stored_timestamp, date_str, storeLog, genVars, aroundVars>>

\* Variant: a JSON file that json.load rejects is taken as an empty list.
StoreReadLenient(t, okIo) ==
    /\ pc[t] = "store"
    /\ storeCalled' = [storeCalled EXCEPT ![t] = TRUE]
    /\ date_str' = [date_str EXCEPT ![t] = DateOf(now)]
    /\ IF okIo
       THEN /\ errors' = [errors EXCEPT ![t] = jsonFile.list]
            /\ pc' = [pc EXCEPT ![t] = "store_write"]
            /\ UNCHANGED <<ioRaised, outcome>>
       ELSE /\ ioRaised' = [ioRaised EXCEPT ![t] = TRUE]
            /\ outcome' = [outcome EXCEPT ![t] = StoreOutcome(TRUE)]
            /\ pc' = [pc EXCEPT ![t] = "done"]
            /\ UNCHANGED errors
    /\ UNCHANGED <<max_retries, attempt, report, last, posts, goodSeen,
                   onlyHttpErrors, wait_time, sleeps, wroteJson, wroteText,
                   fileVars, calls>>
    /\ UNCHANGED <<timestamp, stored_timestamp, storeLog, genVars, aroundVars>>

\* The try block of _store_locally up to the read: os.makedirs, the day is
\* read from the clock for the file names, then os.path.exists and json.load
\* of the day's JSON file.  okIo = FALSE is an OSError in one of them.
StoreRead(t, okIo) ==
    /\ pc[t] = "store"
    /\ storeCalled' = [storeCalled EXCEPT ![t] = TRUE]
    /\ date_str' = [date_str EXCEPT ![t] = DateOf(now)]
    /\ IF okIo /\ jsonFile.state # "malformed"
       THEN /\ errors' = [errors EXCEPT ![t] = jsonFile.list]
            /\ pc' = [pc EXCEPT ![t] = "store_write"]
            /\ UNCHANGED <<ioRaised, outcome>>
       ELSE /\ ioRaised' = [ioRaised EXCEPT ![t] = TRUE]
            /\ outcome' = [outcome EXCEPT ![t] = StoreOutcome(TRUE)]
            /\ pc' = [pc EXCEPT ![t] = "done"]
            /\ UNCHANGED errors
    /\ UNCHANGED <<max_retries, attempt, report, last, posts, goodSeen, onlyHttpErrors,
                   wait_time, sleeps, wroteJson, wroteText, fileVars, calls>>
    /\ UNCHANGED <<timestamp, stored_timestamp, storeLog, genVars, aroundVars>>

\* Variant: the list is read again when the file is rewritten, as it would be
\* under a lock around the read and the rewrite.
StoreWriteFresh(t, okIo, truncated) ==
    /\ pc[t] = "store_write"
    /\ errors' = [errors EXCEPT ![t] =
                      Append(jsonFile.list,
                             ErrorData(report[t], stored_timestamp[t]))]
    /\ IF okIo
       THEN /\ jsonFile' = ListFile(errors'[t])
            /\ wroteJson' = [wroteJson EXCEPT ![t] = TRUE]
            /\ pc' = [pc EXCEPT ![t] = "store_append"]
            /\ UNCHANGED <<ioRaised, outcome>>
       ELSE /\ jsonFile' = IF truncated THEN MalformedFile ELSE jsonFile
            /\ ioRaised' = [ioRaised EXCEPT ![t] = TRUE]
            /\ outcome' = [outcome EXCEPT ![t] = StoreOutcome(TRUE)]
            /\ pc' = [pc EXCEPT ![t] = "done"]
            /\ UNCHANGED wroteJson
    /\ UNCHANGED <<max_retries, attempt, report, last, posts, goodSeen,
                   onlyHttpErrors, wait_time, sleeps, storeCalled, wroteText,
                   textFile, calls>>
    /\ UNCHANGED <<timestamp, stored_timestamp, date_str, storeLog, genVars, aroundVars>>

\* Variant: the list is written back without errors.append(error_data).
StoreWriteNoRecord(t, okIo, truncated) ==
    /\ pc[t] = "store_write"
    /\ UNCHANGED errors
    /\ IF okIo
       THEN /\ jsonFile' = ListFile(errors'[t])
            /\ wroteJson' = [wroteJson EXCEPT ![t] = TRUE]
            /\ pc' = [pc EXCEPT ![t] = "store_append"]
            /\ UNCHANGED <<ioRaised, outcome>>
       ELSE /\ jsonFile' = IF truncated THEN MalformedFile ELSE jsonFile
            /\ ioRaised' = [ioRaised EXCEPT ![t] = TRUE]
            /\ outcome' = [outcome EXCEPT ![t] = StoreOutcome(TRUE)]
            /\ pc' = [pc EXCEPT ![t] = "done"]
            /\ UNCHANGED wroteJson
    /\ UNCHANGED <<max_retries, attempt, report, last, posts, goodSeen, onlyHttpErrors,
                   wait_time, sleeps, storeCalled, wroteText, textFile, calls>>
    /\ UNCHANGED <<timestamp, stored_timestamp, date_str, storeLog, genVars, aroundVars>>

\* errors.append(error_data), then open(json_filename, 'w') and json.dump.
\* okIo = FALSE is an OSError: before the file was opened (content kept) or
\* after open(..., 'w') truncated it (truncated = TRUE).
StoreWrite(t, okIo, truncated) ==
    /\ pc[t] = "store_write"
    /\ errors' = [errors EXCEPT ![t] =
                      Append(@, ErrorData(report[t], stored_timestamp[t]))]
    /\ IF okIo
       THEN /\ jsonFile' = ListFile(errors'[t])
            /\ wroteJson' = [wroteJson EXCEPT ![t] = TRUE]
            /\ pc' = [pc EXCEPT ![t] = "store_append"]
            /\ UNCHANGED <<ioRaised, outcome>>
       ELSE /\ jsonFile' = IF truncated THEN MalformedFile ELSE jsonFile
            /\ ioRaised' = [ioRaised EXCEPT ![t] = TRUE]
            /\ outcome' = [outcome EXCEPT ![t] = StoreOutcome(TRUE)]
            /\ pc' = [pc EXCEPT ![t] = "done"]
            /\ UNCHANGED wroteJson
    /\ UNCHANGED <<max_retries, attempt, report, last, posts, goodSeen, onlyHttpErrors,
                   wait_time, sleeps, storeCalled, wroteText, textFile, calls>>
    /\ UNCHANGED <<timestamp, stored_timestamp, date_str, storeLog, genVars, aroundVars>>

\* Variant: the import file is opened with 'w'.
StoreAppendOverwrite(t, okIo) ==
    /\ pc[t] = "store_append"
    /\ IF okIo
       THEN /\ textFile' = <<ImportText(report[t], stored_timestamp[t])>>
            /\ wroteText' = [wroteText EXCEPT ![t] = TRUE]
            /\ UNCHANGED ioRaised
       ELSE /\ ioRaised' = [ioRaised EXCEPT ![t] = TRUE]
            /\ UNCHANGED <<textFile, wroteText>>
    /\ outcome' = [outcome EXCEPT ![t] = StoreOutcome(~okIo)]
    /\ pc' = [pc EXCEPT ![t] = "done"]
    /\ UNCHANGED <<max_retries, attempt, report, last, posts, goodSeen,
                   onlyHttpErrors, wait_time, sleeps, errors, storeCalled,
                   wroteJson, jsonFile, calls>>
    /\ UNCHANGED <<timestamp, stored_timestamp, date_str, storeLog, genVars, aroundVars>>

\* open(import_filename, 'a') and f.write of the import block, then the
\* return of _store_locally.
StoreAppend(t, okIo) ==
    /\ pc[t] = "store_append"
    /\ IF okIo
       THEN /\ textFile' = Append(textFile,
                                   ImportText(report[t], stored_timestamp[t]))
            /\ wroteText' = [wroteText EXCEPT ![t] = TRUE]
            /\ UNCHANGED ioRaised
       ELSE /\ ioRaised' = [ioRaised EXCEPT ![t] = TRUE]
            /\ UNCHANGED <<textFile, wroteText>>
    /\ outcome' = [outcome EXCEPT ![t] = StoreOutcome(~okIo)]
    /\ pc' = [pc EXCEPT ![t] = "done"]
    /\ UNCHANGED <<max_retries, attempt, report, last, posts, goodSeen, onlyHttpErrors,
                   wait_time, sleeps, errors, storeCalled, wroteJson,
                   jsonFile, calls>>
    /\ UNCHANGED <<timestamp, stored_timestamp, date_str, storeLog, genVars, aroundVars>>

\* The caller has taken the returned dictionary; its next call starts from
\* fresh locals.
ReturnLocals(t) ==
    /\ pc[t] = "done"
    /\ pc' = [pc EXCEPT ![t] = "idle"]
    /\ attempt' = [attempt EXCEPT ![t] = 0]
    /\ report' = [report EXCEPT ![t] = NoReport]
    /\ last' = [last EXCEPT ![t] = NoResult]
    /\ posts' = [posts EXCEPT ![t] = 0]
    /\ goodSeen' = [goodSeen EXCEPT ![t] = 0]
    /\ onlyHttpErrors' = [onlyHttpErrors EXCEPT ![t] = TRUE]
    /\ wait_time' = [wait_time EXCEPT ![t] = 0]
    /\ sleeps' = [sleeps EXCEPT ![t] = 0]
    /\ errors' = [errors EXCEPT ![t] = <<>>]
    /\ storeCalled' = [storeCalled EXCEPT ![t] = FALSE]
    /\ wroteJson' = [wroteJson EXCEPT ![t] = FALSE]
    /\ wroteText' = [wroteText EXCEPT ![t] = FALSE]
    /\ ioRaised' = [ioRaised EXCEPT ![t] = FALSE]
    /\ outcome' = [outcome EXCEPT ![t] = NoOutcome]
    /\ timestamp' = [timestamp EXCEPT ![t] = 0]
    /\ stored_timestamp' = [stored_timestamp EXCEPT ![t] = 0]
    /\ date_str' = [date_str EXCEPT ![t] = 0]
    /\ UNCHANGED <<max_retries, fileVars, calls, aroundVars>>

Return(t) == ReturnLocals(t) /\ UNCHANGED <<storeLog, genVars>>

\* A step of a call in progress (everything but the adapter's decision to
\* start a call).
Step(t) ==
    \/ \E res \in HttpResults : Post(t, res)
    \/ Sleep(t)
    \/ \E okIo \in BOOLEAN : StoreRead(t, okIo)
    \/ \E okIo \in BOOLEAN, truncated \in BOOLEAN : StoreWrite(t, okIo, truncated)
    \/ \E okIo \in BOOLEAN : StoreAppend(t, okIo)
    \/ Return(t)

Next ==
    \/ \E t \in Adapters : \E r \in ReportsOf(t) : Start(t, r)
    \/ \E t \in Adapters : Step(t)

Spec == Init /\ [][Next]_vars

\* The calls of one adapter alone.  Every request has a timeout, every sleep
\* is finite and the thread is scheduled, so a call in progress keeps taking
\* steps; calls never wait for each other.
SoloNext ==
    \/ \E r \in ReportsOf("generator") : Start("generator", r)
    \/ Step("generator")

FairSpec == Init /\ [][SoloNext]_vars /\ WF_vars(Step("generator"))

\* The calls of one adapter for every value ANYTHINGLLM_RETRIES can have.
AnyRetriesSpec == AnyRetriesInit /\ [][SoloNext]_vars

\* ------------------------------------------------- calls one after another
\* An adapter starts a call while no other call is in progress.
SeqStart(t, r) ==
    /\ \A u \in Callers : pc[u] = "idle"
    /\ Start(t, r)

\* The return of a call, with the result of its _store_locally call (if it
\* made one) added to the log.
LoggedReturn(t) ==
    /\ ReturnLocals(t)
    /\ storeLog' =
           IF storeCalled[t]
           THEN Append(storeLog, [report |-> report[t],
                                  timestamp |-> stored_timestamp[t],
                                  method |-> outcome[t].method,
                                  wroteJson |-> wroteJson[t],
                                  wroteText |-> wroteText[t]])
           ELSE storeLog
    /\ UNCHANGED genVars

SeqStep(t) ==
    \/ \E res \in HttpResults : Post(t, res)
    \/ Sleep(t)
    \/ \E okIo \in BOOLEAN : StoreRead(t, okIo)
    \/ \E okIo \in BOOLEAN, truncated \in BOOLEAN : StoreWrite(t, okIo, truncated)
    \/ \E okIo \in BOOLEAN : StoreAppend(t, okIo)
    \/ LoggedReturn(t)

SeqNext ==
    \/ \E t \in Adapters : \E r \in ReportsOf(t) : SeqStart(t, r)
    \/ \E t \in Adapters : SeqStep(t)

SeqSpec == Init /\ [][SeqNext]_vars

\* ------------------------------------------------------------- the reader
\* A get_stored_errors call for the day, made at any point of a call of
\* send_machine_error that is in progress on another thread.
ReadStored(okIo) ==
    /\ reads < MaxReads
    /\ reads' = reads + 1
    /\ readResult' = GetStoredErrors(jsonFile, okIo)
    /\ UNCHANGED <<max_retries, callVars, fileVars, calls, timestamp,
                   stored_timestamp, date_str, storeLog, genVars, deviceVars, now, mqttVars, loopVars>>

ReaderNext ==
    \/ SoloNext
    \/ \E okIo \in BOOLEAN : ReadStored(okIo)

ReaderSpec == Init /\ [][ReaderNext]_vars

\* --------------------------------------------------- calls while time passes
\* The wall clock advances.
Tick ==
    /\ now < MaxTime
    /\ now' = now + 1
    /\ UNCHANGED <<max_retries, callVars, fileVars, calls, timestamp,
                   stored_timestamp, date_str, storeLog, genVars, deviceVars, readerVars, mqttVars, loopVars>>

\* The calls of one adapter, with the clock running during requests, sleeps
\* and file accesses.
TimedNext ==
    \/ SoloNext
    \/ Tick

TimedSpec == Init /\ [][TimedNext]_vars

\* ------------------------------------------------------- the MQTT callback
\* msg.topic.split('/') of the messages received.
MqttTopics == { <<"machines", "Pump_02", "errors">>, <<"errors">> }

\* msg.payload: bytes that are not UTF-8, text that is not JSON, JSON that is
\* not an object, and JSON objects with or without code / description.
MqttPayloads ==
    { [kind |-> "undecodable", code |-> Missing, description |-> Missing],
      [kind |-> "notjson", code |-> Missing, description |-> Missing],
      [kind |-> "array", code |-> Missing, description |-> Missing],
      [kind |-> "object", code |-> "E002", description |-> "Overheat"],
      [kind |-> "object", code |-> Missing, description |-> Missing] }

MqttMessages == [topic : MqttTopics, payload : MqttPayloads]

\* machine = topic_parts[1] if len(topic_parts) > 1 else "unknown"
TopicMachine(topic_parts) ==
    IF Len(topic_parts) > 1 THEN topic_parts[2] ELSE "unknown"

\* The arguments on_message hands to send_machine_error.
MqttReport(msg) ==
    [machine |-> TopicMachine(msg.topic),
     code |-> DictGet(msg.payload, "code", "unknown"),
     description |-> DictGet(msg.payload, "description", "Keine Beschreibung")]

\* Variant: on_message with `except json.JSONDecodeError` only.
OnMessageOutcomeNoCatchAll(msg) ==
    CASE msg.payload.kind = "undecodable" -> "raised"
      [] msg.payload.kind = "notjson" -> "logged JSONDecodeError"
      [] msg.payload.kind = "array" -> "raised"
      [] OTHER -> "deliver"

\* How on_message gets through its try body: msg.payload.decode() raises
\* UnicodeDecodeError, json.loads raises JSONDecodeError, payload.get raises
\* AttributeError on a value that is not a dict; the first except clause
\* catches JSONDecodeError, the second everything else.
OnMessageOutcome(msg) ==
    CASE msg.payload.kind = "undecodable" -> "logged Exception"
      [] msg.payload.kind = "notjson" -> "logged JSONDecodeError"
      [] msg.payload.kind = "array" -> "logged Exception"
      [] OTHER -> "deliver"

\* on_message is called by the MQTT thread with a message: a malformed one is
\* logged, a well-formed one is handed to send_machine_error.  An exception
\* leaving on_message ends the processing of messages.
OnMessage(msg) ==
    /\ mqttLog # "raised"
    /\ pc["mqtt"] = "idle"
    /\ IF OnMessageOutcome(msg) = "deliver"
       THEN Start("mqtt", MqttReport(msg))
       ELSE /\ mqttDropped < MaxDropped
            /\ mqttDropped' = mqttDropped + 1
            /\ mqttLog' = OnMessageOutcome(msg)
            /\ UNCHANGED <<max_retries, callVars, fileVars, calls, timestamp,
                           stored_timestamp, date_str, storeLog, genVars, deviceVars, now, readerVars,
                           loopVars>>

MqttNext ==
    \/ \E msg \in MqttMessages : OnMessage(msg)
    \/ Step("mqtt")

MqttSpec == Init /\ [][MqttNext]_vars

\* ---------------------------------------------------------- the event loop
\* Coroutines of the one event loop: the manual_error / test_error request
\* handler, another request handler, and an OPC UA task.
Coroutines == {"manual_error", "status", "opcua"}

\* Positions at which a call of send_machine_error has not returned yet.
InCall == {"post", "sleep", "store", "store_write", "store_append"}

\* Variant: the handler hands send_machine_error to a worker thread and
\* awaits it, so the loop is free while the call runs.
LoopIdleDuringCall == loopOwner = None \/ pc["handler"] \in InCall

\* The event loop resumes a ready coroutine only when the one it was running
\* has reached an await or has ended.
LoopIdle == loopOwner = None

\* The event loop resumes coroutine c: for the handler, a request has come
\* in and the handler runs from its first line.
LoopRun(c) ==
    /\ LoopIdle
    /\ c = "manual_error" => (handlerPc # "running" /\ pc["handler"] = "idle")
    /\ loopOwner' = c
    /\ handlerPc' = IF c = "manual_error" THEN "running" ELSE handlerPc
    /\ UNCHANGED <<max_retries, callVars, fileVars, calls, timestamp,
                   stored_timestamp, date_str, storeLog, genVars, deviceVars, now, readerVars, mqttVars,
                   coSteps>>

\* The handler, running on the loop, calls send_machine_error: a plain call,
\* not an await.
HandlerCall(r) ==
    /\ loopOwner = "manual_error"
    /\ handlerPc = "running"
    /\ Start("handler", r)

\* A step of the handler's call: requests.post, time.sleep and the file
\* accesses all block the thread of the event loop.
HandlerStep ==
    /\ loopOwner = "manual_error"
    /\ \/ \E res \in HttpResults : Post("handler", res)
       \/ Sleep("handler")
       \/ \E okIo \in BOOLEAN : StoreRead("handler", okIo)
       \/ \E okIo \in BOOLEAN, truncated \in BOOLEAN :
              StoreWrite("handler", okIo, truncated)
       \/ \E okIo \in BOOLEAN : StoreAppend("handler", okIo)

\* The handler has the outcome, returns its response (or raises the
\* HTTPException) and the coroutine ends.
HandlerRespond ==
    /\ loopOwner = "manual_error"
    /\ pc["handler"] = "done"
    /\ handlerPc = "running"
    /\ loopOwner' = None
    /\ handlerPc' = "responded"
    /\ UNCHANGED <<max_retries, callVars, fileVars, calls, timestamp,
                   stored_timestamp, date_str, storeLog, genVars, deviceVars, now, readerVars, mqttVars,
                   coSteps>>

\* The locals of the finished call are gone.
HandlerCleanup ==
    /\ handlerPc = "responded"
    /\ Return("handler")

\* Another coroutine runs up to its next await.
CoStep(c) ==
    /\ c # "manual_error"
    /\ loopOwner = c
    /\ coSteps < MaxCoSteps
    /\ coSteps' = coSteps + 1
    /\ loopOwner' = None
    /\ UNCHANGED <<max_retries, callVars, fileVars, calls, timestamp,
                   stored_timestamp, date_str, storeLog, genVars, deviceVars, now, readerVars, mqttVars,
                   handlerPc>>

LoopNext ==
    \/ \E c \in Coroutines : LoopRun(c)
    \/ \E r \in Reports : HandlerCall(r)
    \/ HandlerStep
    \/ HandlerRespond
    \/ HandlerCleanup
    \/ \E c \in Coroutines : CoStep(c)

LoopSpec == Init /\ [][LoopNext]_vars

\* ---------------------------------------------------- the generator threads
\* Everything but the generator's variables.
nonGenVars == <<max_retries, callVars, fileVars, calls, timestamp, stored_timestamp,
                date_str, storeLog, aroundVars>>

\* Thread.is_alive().
Alive(g) == genPc[g] \notin {"unborn", "exited"}

Unborn == {g \in GenThreads : genPc[g] = "unborn"}
NextThread == CHOOSE g \in Unborn : \A h \in Unborn : g <= h

\* generator_thread = threading.Thread(target=auto_error_generator);
\* generator_thread.start().
StartThread ==
    /\ Unborn # {}
    /\ generator_thread' = NextThread
    /\ genPc' = [genPc EXCEPT ![NextThread] = "delay"]

\* The startup half of lifespan: the flag is read from ENABLE_AUTO_GENERATOR
\* and the thread is started if it is set.
LifespanStartup(enabled) ==
    /\ lifespanPc = "startup"
    /\ lifespanPc' = "running"
    /\ auto_generator_enabled' = enabled
    /\ IF enabled THEN StartThread ELSE UNCHANGED <<generator_thread, genPc>>
    /\ UNCHANGED <<error_count, restartPc, nonGenVars>>

\* The shutdown half of lifespan.
LifespanShutdown ==
    /\ lifespanPc = "running"
    /\ restartPc = "idle"
    /\ lifespanPc' = "shutdown"
    /\ auto_generator_enabled' = FALSE
    /\ UNCHANGED <<generator_thread, genPc, error_count, restartPc, nonGenVars>>

\* POST /auto-generator/start.
StartEndpoint ==
    /\ lifespanPc = "running"
    /\ restartPc = "idle"
    /\ IF auto_generator_enabled
       THEN UNCHANGED <<auto_generator_enabled, generator_thread, genPc>>
       ELSE /\ auto_generator_enabled' = TRUE
            /\ StartThread
    /\ UNCHANGED <<error_count, lifespanPc, restartPc, nonGenVars>>

\* POST /auto-generator/stop.
StopEndpoint ==
    /\ lifespanPc = "running"
    /\ restartPc = "idle"
    /\ auto_generator_enabled' = FALSE
    /\ UNCHANGED <<generator_thread, genPc, error_count, lifespanPc, restartPc,
                   nonGenVars>>

\* POST /auto-generator/restart, up to the join: the flag is cleared and the
\* request waits for the thread.
RestartBegin ==
    /\ lifespanPc = "running"
    /\ restartPc = "idle"
    /\ auto_generator_enabled' = FALSE
    /\ restartPc' = "joining"
    /\ UNCHANGED <<generator_thread, genPc, error_count, lifespanPc, nonGenVars>>

\* join(timeout=5) gives up on a thread that stays inside send_machine_error
\* for more than five seconds; a thread in one of its one-second sleeps has
\* read the flag by then.
JoinTimesOut(g) == genPc[g] = "deliver"

\* restart_auto_generator after the join: the thread has ended or the join
\* timed out; the flag is set and a new thread is started.
RestartEnd ==
    /\ restartPc = "joining"
    /\ generator_thread # 0 =>
           (~Alive(generator_thread) \/ JoinTimesOut(generator_thread))
    /\ auto_generator_enabled' = TRUE
    /\ StartThread
    /\ restartPc' = "idle"
    /\ UNCHANGED <<error_count, lifespanPc, nonGenVars>>

\* The initial delay of auto_error_generator: the flag is read before every
\* one-second sleep; the thread returns when it reads false.
GenDelay(g) ==
    /\ genPc[g] = "delay"
    /\ genPc' = [genPc EXCEPT ![g] = IF auto_generator_enabled THEN "test" ELSE "exited"]
    /\ UNCHANGED <<auto_generator_enabled, generator_thread, error_count, lifespanPc,
                   restartPc, nonGenVars>>

\* Variant: `while True` in place of `while auto_generator_enabled`.
GenLoopTestBlind(g) ==
    /\ genPc[g] = "test"
    /\ error_count[g] < MaxCalls
    /\ genPc' = [genPc EXCEPT ![g] = "deliver"]
    /\ UNCHANGED <<auto_generator_enabled, generator_thread, error_count, lifespanPc,
                   restartPc, nonGenVars>>

\* `while auto_generator_enabled`: the thread goes on to generate a report
\* and to call send_machine_error, or leaves the loop and ends.
GenLoopTest(g) ==
    /\ genPc[g] = "test"
    /\ IF auto_generator_enabled
       THEN /\ error_count[g] < MaxCalls
            /\ genPc' = [genPc EXCEPT ![g] = "deliver"]
       ELSE genPc' = [genPc EXCEPT ![g] = "exited"]
    /\ UNCHANGED <<auto_generator_enabled, generator_thread, error_count, lifespanPc,
                   restartPc, nonGenVars>>

\* The call of send_machine_error by a thread whose call is not followed
\* step by step: it returns after some time and error_count is incremented.
GenDelivered(g) ==
    /\ genPc[g] = "deliver"
    /\ genPc' = [genPc EXCEPT ![g] = "interval"]
    /\ error_count' = [error_count EXCEPT ![g] = @ + 1]
    /\ UNCHANGED <<auto_generator_enabled, generator_thread, lifespanPc, restartPc,
                   nonGenVars>>

\* The wait between two reports: the loop of one-second sleeps ends when the
\* interval is over or when the flag is read as false.
GenInterval(g) ==
    /\ genPc[g] = "interval"
    /\ genPc' = [genPc EXCEPT ![g] = "recheck"]
    /\ UNCHANGED <<auto_generator_enabled, generator_thread, error_count, lifespanPc,
                   restartPc, nonGenVars>>

\* `if not auto_generator_enabled: break` after the wait.
GenRecheck(g) ==
    /\ genPc[g] = "recheck"
    /\ genPc' = [genPc EXCEPT ![g] = IF auto_generator_enabled THEN "test" ELSE "exited"]
    /\ UNCHANGED <<auto_generator_enabled, generator_thread, error_count, lifespanPc,
                   restartPc, nonGenVars>>

Requests ==
    \/ \E enabled \in BOOLEAN : LifespanStartup(enabled)
    \/ LifespanShutdown
    \/ StartEndpoint
    \/ StopEndpoint
    \/ RestartBegin
    \/ RestartEnd

\* All generator threads, none of their calls followed step by step.
ThreadsNext ==
    \/ Requests
    \/ \E g \in GenThreads : GenDelay(g)
    \/ \E g \in GenThreads : GenLoopTest(g)
    \/ \E g \in GenThreads : GenDelivered(g)
    \/ \E g \in GenThreads : GenInterval(g)
    \/ \E g \in GenThreads : GenRecheck(g)

ThreadsSpec == Init /\ [][ThreadsNext]_vars

\* The first generator thread, the one lifespan starts, with its calls of
\* send_machine_error followed step by step.
FirstThread == 1

\* llm_client.send_machine_error(machine, code, description) is entered.
GenSubmit(r) ==
    /\ genPc[FirstThread] = "deliver"
    /\ Start("generator", r)

\* A step inside the call.
GenCallStep ==
    /\ genPc[FirstThread] = "deliver"
    /\ \/ \E res \in HttpResults : Post("generator", res)
       \/ Sleep("generator")
       \/ \E okIo \in BOOLEAN : StoreRead("generator", okIo)
       \/ \E okIo \in BOOLEAN, truncated \in BOOLEAN :
              StoreWrite("generator", okIo, truncated)
       \/ \E okIo \in BOOLEAN : StoreAppend("generator", okIo)

\* The call returns its result and error_count is incremented.
GenReturn ==
    /\ genPc[FirstThread] = "deliver"
    /\ ReturnLocals("generator")
    /\ genPc' = [genPc EXCEPT ![FirstThread] = "interval"]
    /\ error_count' = [error_count EXCEPT ![FirstThread] = @ + 1]
    /\ UNCHANGED <<storeLog, auto_generator_enabled, generator_thread, lifespanPc,
                   restartPc>>

GenThreadStep ==
    \/ GenDelay(FirstThread)
    \/ GenLoopTest(FirstThread)
    \/ \E r \in ReportsOf("generator") : GenSubmit(r)
    \/ GenCallStep
    \/ GenReturn
    \/ GenInterval(FirstThread)
    \/ GenRecheck(FirstThread)

GenNext ==
    \/ Requests
    \/ GenThreadStep

GenSpec == Init /\ [][GenNext]_vars

\* The thread is scheduled, every request has a timeout and every sleep is
\* finite: the thread keeps taking steps.
FairGenSpec == Init /\ [][GenNext]_vars /\ WF_vars(GenThreadStep)

\* ------------------------------------------------------ the OPC UA server
\* One configured server: every server has its own OPCUAServerConfig and
\* OPCUAServerConnection, and no server's connection reads another's.
\* {PREFIX}_MAX_RETRIES is any number from 0 to MaxOpcRetries.
OpcInit == InitFor({MaxRetriesCfg}, 0..MaxOpcRetries)

\* How a connect() call ends: the connection is made, asyncio.wait_for times
\* out, or another exception is raised.
ConnectResults == {"ok", "timeout", "error"}

\* What connect() leaves in self.connected and config.retry_count.
ConnectedAfter(res) == IF res = "ok" THEN TRUE ELSE connected

RetryCountAfter(res) ==
    CASE res = "ok" -> 0
      [] res = "timeout" -> retry_count
      [] OTHER -> retry_count + 1

\* Variant: the wait is 2 ** attempt without the cap.
BackoffUncapped(k) == 2 ^ k

\* min(2 ** attempt, 30).
Backoff(k) == IF 2 ^ k < MaxBackoff THEN 2 ^ k ELSE MaxBackoff

\* connect_all_servers creates the _connect_with_retry task of the server.
OpcTaskStart ==
    /\ opcPc = "idle"
    /\ opcPc' = "connect"
    /\ opcAttempt' = 0
    /\ UNCHANGED <<connected, retry_count, opc_max_retries, opcResult, connectCalls,
                   opcWait, opcSleeps, opcLast, reconnects, reconnectCalls>>
    /\ UNCHANGED <<max_retries, callVars, fileVars, calls, timestamp, stored_timestamp,
                   date_str, storeLog, genVars, now, readerVars, mqttVars, loopVars,
                   wsVars>>

\* One iteration of _connect_with_retry up to its asyncio.sleep: connect()
\* is awaited; True is returned at once, otherwise the wait is chosen if
\* another attempt is left, and False is returned after the last one.
OpcTaskConnect(res) ==
    /\ opcPc = "connect"
    /\ connectCalls' = connectCalls + 1
    /\ opcLast' = res
    /\ connected' = ConnectedAfter(res)
    /\ retry_count' = RetryCountAfter(res)
    /\ IF res = "ok"
       THEN /\ opcResult' = TRUE
            /\ opcPc' = "done"
            /\ UNCHANGED opcWait
       ELSE IF opcAttempt < opc_max_retries
            THEN /\ opcWait' = Backoff(opcAttempt)
                 /\ opcPc' = "sleep"
                 /\ UNCHANGED opcResult
            ELSE /\ opcResult' = FALSE
                 /\ opcPc' = "done"
                 /\ UNCHANGED opcWait
    /\ UNCHANGED <<opc_max_retries, opcAttempt, opcSleeps, reconnects, reconnectCalls>>
    /\ UNCHANGED <<max_retries, callVars, fileVars, calls, timestamp, stored_timestamp,
                   date_str, storeLog, genVars, now, readerVars, mqttVars, loopVars,
                   wsVars>>

\* asyncio.sleep(wait_time) returns and the loop takes its next iteration.
OpcTaskSleep ==
    /\ opcPc = "sleep"
    /\ opcSleeps' = opcSleeps + 1
    /\ opcAttempt' = opcAttempt + 1
    /\ opcPc' = "connect"
    /\ UNCHANGED <<connected, retry_count, opc_max_retries, opcResult, connectCalls,
                   opcWait, opcLast, reconnects, reconnectCalls>>
    /\ UNCHANGED <<max_retries, callVars, fileVars, calls, timestamp, stored_timestamp,
                   date_str, storeLog, genVars, now, readerVars, mqttVars, loopVars,
                   wsVars>>

\* Variant: reconnect_failed_servers calls connect() whatever retry_count is.
ReconnectNoBudget(res) ==
    /\ reconnects < MaxReconnects
    /\ reconnects' = reconnects + 1
    /\ IF ~connected
       THEN /\ reconnectCalls' = reconnectCalls + 1
            /\ opcLast' = res
            /\ connected' = ConnectedAfter(res)
            /\ retry_count' = RetryCountAfter(res)
       ELSE UNCHANGED <<reconnectCalls, opcLast, connected, retry_count>>
    /\ UNCHANGED <<opc_max_retries, opcPc, opcAttempt, opcResult, connectCalls, opcWait,
                   opcSleeps>>
    /\ UNCHANGED <<max_retries, callVars, fileVars, calls, timestamp, stored_timestamp,
                   date_str, storeLog, genVars, now, readerVars, mqttVars, loopVars,
                   wsVars>>

\* reconnect_failed_servers: connect() is called for the server if it is not
\* connected and retry_count < max_retries.
Reconnect(res) ==
    /\ reconnects < MaxReconnects
    /\ reconnects' = reconnects + 1
    /\ IF ~connected /\ retry_count < opc_max_retries
       THEN /\ reconnectCalls' = reconnectCalls + 1
            /\ opcLast' = res
            /\ connected' = ConnectedAfter(res)
            /\ retry_count' = RetryCountAfter(res)
       ELSE UNCHANGED <<reconnectCalls, opcLast, connected, retry_count>>
    /\ UNCHANGED <<opc_max_retries, opcPc, opcAttempt, opcResult, connectCalls, opcWait,
                   opcSleeps>>
    /\ UNCHANGED <<max_retries, callVars, fileVars, calls, timestamp, stored_timestamp,
                   date_str, storeLog, genVars, now, readerVars, mqttVars, loopVars,
                   wsVars>>

\* disconnect(): the connection of a connected server is closed.
OpcDisconnect ==
    /\ connected
    /\ connected' = FALSE
    /\ UNCHANGED <<retry_count, opc_max_retries, opcPc, opcAttempt, opcResult,
                   connectCalls, opcWait, opcSleeps, opcLast, reconnects, reconnectCalls>>
    /\ UNCHANGED <<max_retries, callVars, fileVars, calls, timestamp, stored_timestamp,
                   date_str, storeLog, genVars, now, readerVars, mqttVars, loopVars,
                   wsVars>>

OpcNext ==
    \/ OpcTaskStart
    \/ \E res \in ConnectResults : OpcTaskConnect(res)
    \/ OpcTaskSleep
    \/ \E res \in ConnectResults : Reconnect(res)
    \/ OpcDisconnect

OpcSpec == OpcInit /\ [][OpcNext]_vars

\* ------------------------------------------------ the WebSocket registry
\* Everything but the registry's variables.
nonWsVars == <<max_retries, callVars, fileVars, calls, timestamp, stored_timestamp,
               date_str, storeLog, genVars, now, readerVars, mqttVars, loopVars,
               opcVars>>

\* x in list.
InList(l, x) == \E i \in 1..Len(l) : l[i] = x

\* list.remove(x) on a list that holds x: the first occurrence is removed.
ListRemove(l, x) ==
    LET i == CHOOSE k \in 1..Len(l) : l[k] = x /\ \A j \in 1..(k - 1) : l[j] # x
    IN  SubSeq(l, 1, i - 1) \o SubSeq(l, i + 1, Len(l))

\* `for ws in disconnected: clients.remove(ws)`: the list after the loop, and
\* whether a remove raised ValueError because the socket was not in the list
\* (the sockets before it are removed by then).
RECURSIVE RemoveEach(_, _)
RemoveEach(l, gone) ==
    IF gone = <<>>
    THEN [raised |-> FALSE, list |-> l]
    ELSE IF InList(l, Head(gone))
         THEN RemoveEach(ListRemove(l, Head(gone)), Tail(gone))
         ELSE [raised |-> TRUE, list |-> l]

\* broadcast between two awaits: the list iterator of `for ws in clients`
\* yields the next socket and its send_json is awaited, or the iterator is
\* exhausted and the sockets of `disconnected` are removed from clients.
BroadcastGoesOn(b, disc) ==
    IF bIdx[b] < Len(clients)
    THEN /\ bCur' = [bCur EXCEPT ![b] = clients[bIdx[b] + 1]]
         /\ bIdx' = [bIdx EXCEPT ![b] = @ + 1]
         /\ bPc' = [bPc EXCEPT ![b] = "send"]
         /\ UNCHANGED clients
    ELSE /\ clients' = RemoveEach(clients, disc).list
         /\ bPc' = [bPc EXCEPT ![b] =
                        IF RemoveEach(clients, disc).raised THEN "raised" ELSE "done"]
         /\ UNCHANGED <<bCur, bIdx>>

\* broadcast is called: `disconnected` is empty and the list iterator yields
\* the first socket, if there is one.
BroadcastStart(b) ==
    /\ broadcasts < MaxBroadcasts
    /\ broadcasts' = broadcasts + 1
    /\ bDisc' = [bDisc EXCEPT ![b] = <<>>]
    /\ bSent' = [bSent EXCEPT ![b] = {}]
    /\ IF 0 < Len(clients)
       THEN /\ bCur' = [bCur EXCEPT ![b] = clients[1]]
            /\ bIdx' = [bIdx EXCEPT ![b] = 1]
            /\ bPc' = [bPc EXCEPT ![b] = "send"]
       ELSE /\ bIdx' = [bIdx EXCEPT ![b] = 0]
            /\ bPc' = [bPc EXCEPT ![b] = "done"]
            /\ UNCHANGED bCur
    /\ UNCHANGED clients

\* websocket_endpoint up to its first receive_text: the socket is accepted
\* and appended to clients.
WsAccept(ws) ==
    /\ wsPc[ws] = "new"
    /\ clients' = Append(clients, ws)
    /\ wsPc' = [wsPc EXCEPT ![ws] = "receive"]
    /\ UNCHANGED <<peerOpen, bPc, bIdx, bCur, bDisc, bSent, broadcasts, nonWsVars>>

\* The peer closes the connection.
PeerClose(ws) ==
    /\ wsPc[ws] # "new"
    /\ peerOpen[ws]
    /\ peerOpen' = [peerOpen EXCEPT ![ws] = FALSE]
    /\ UNCHANGED <<clients, wsPc, bPc, bIdx, bCur, bDisc, bSent, broadcasts, nonWsVars>>

\* receive_text returns a message and websocket_endpoint calls broadcast.
WsReceive(ws) ==
    /\ wsPc[ws] = "receive"
    /\ peerOpen[ws]
    /\ wsPc' = [wsPc EXCEPT ![ws] = "broadcast"]
    /\ BroadcastStart(ws)
    /\ UNCHANGED <<peerOpen, nonWsVars>>

\* receive_text raises WebSocketDisconnect and the except clause removes the
\* socket from clients; the remove raises ValueError if it is not there.
WsDisconnect(ws) ==
    /\ wsPc[ws] = "receive"
    /\ ~peerOpen[ws]
    /\ IF InList(clients, ws)
       THEN /\ clients' = ListRemove(clients, ws)
            /\ wsPc' = [wsPc EXCEPT ![ws] = "closed"]
       ELSE /\ wsPc' = [wsPc EXCEPT ![ws] = "raised"]
            /\ UNCHANGED clients
    /\ UNCHANGED <<peerOpen, bPc, bIdx, bCur, bDisc, bSent, broadcasts, nonWsVars>>

\* The broadcast called by websocket_endpoint is over: the coroutine awaits
\* the next message, or ends with the exception broadcast raised.
WsBroadcastReturn(ws) ==
    /\ wsPc[ws] = "broadcast"
    /\ bPc[ws] \in {"done", "raised"}
    /\ wsPc' = [wsPc EXCEPT ![ws] = IF bPc[ws] = "done" THEN "receive" ELSE "raised"]
    /\ bPc' = [bPc EXCEPT ![ws] = IF bPc[ws] = "done" THEN "idle" ELSE "raised"]
    /\ UNCHANGED <<clients, peerOpen, bIdx, bCur, bDisc, bSent, broadcasts, nonWsVars>>

\* chat_send has its reply and calls broadcast.
ChatSend ==
    /\ bPc["chat_send"] = "idle"
    /\ BroadcastStart("chat_send")
    /\ UNCHANGED <<wsPc, peerOpen, nonWsVars>>

\* chat_send returns its reply after the broadcast.
ChatReturn ==
    /\ bPc["chat_send"] = "done"
    /\ bPc' = [bPc EXCEPT !["chat_send"] = "idle"]
    /\ UNCHANGED <<clients, wsPc, peerOpen, bIdx, bCur, bDisc, bSent, broadcasts,
                   nonWsVars>>

\* The awaited send_json of a broadcast call ends: it returns (the peer is
\* still there) or raises, and the socket is appended to `disconnected`;
\* then the loop goes on.
BroadcastSend(b, ok) ==
    /\ bPc[b] = "send"
    /\ ok => peerOpen[bCur[b]]
    /\ bSent' = [bSent EXCEPT ![b] = IF ok THEN @ \cup {bCur[b]} ELSE @]
    /\ bDisc' = [bDisc EXCEPT ![b] = IF ok THEN @ ELSE Append(@, bCur[b])]
    /\ BroadcastGoesOn(b, bDisc'[b])
    /\ UNCHANGED <<wsPc, peerOpen, broadcasts, nonWsVars>>

WsNext ==
    \/ \E ws \in Sockets : WsAccept(ws)
    \/ \E ws \in Sockets : PeerClose(ws)
    \/ \E ws \in Sockets : WsReceive(ws)
    \/ \E ws \in Sockets : WsDisconnect(ws)
    \/ \E ws \in Sockets : WsBroadcastReturn(ws)
    \/ ChatSend
    \/ ChatReturn
    \/ \E b \in Broadcasters, ok \in BOOLEAN : BroadcastSend(b, ok)

WsSpec == Init /\ [][WsNext]_vars

\* ------------------------------------------------------------ properties
StorePhase == {"store", "store_write", "store_append"}

\* The attempt raised an exception that is neither a Timeout nor a
\* ConnectionError: requests.post raised it, or result.get did because the
\* JSON body is not an object.
RaisedUnexpected(res) ==
    \/ res.kind = "raise" /\ res.exc \notin {"Timeout", "ConnectionError"}
    \/ res.kind = "response" /\ res.status = 200 /\ res.body.kind = "array"

\* C1: when attempt k is answered by status 200 and a JSON object, the call
\* is over (no attempt k+1 can follow) and its outcome is success = true,
\* method = api, attempt = k, with anythingllm_response and response_id taken
\* from that response.
C1_ShortCircuit ==
    \A t \in Adapters :
        GoodResponse(last[t]) =>
            /\ pc[t] = "done"
            /\ outcome[t].success = TRUE
            /\ outcome[t].method = "api"
            /\ outcome[t].attempt = posts[t]
            /\ outcome[t].anythingllm_response =
                   (IF last[t].body.textResponse = Missing
                    THEN "" ELSE last[t].body.textResponse)
            /\ outcome[t].response_id =
                   (IF last[t].body.id = Missing THEN None ELSE last[t].body.id)

\* A call succeeds on its second attempt, with another attempt left.
C1_Witness ==
    \E t \in Adapters :
        /\ pc[t] = "done" /\ last[t].body = FullBody /\ GoodResponse(last[t])
        /\ posts[t] = 2 /\ max_retries = 3

\* C2: a finished call whose outcome has method = api had exactly one
\* successful HTTP attempt, its last one, and never entered _store_locally:
\* it changed neither the JSON file nor the text file.
C2_ApiMeansOneSuccessNoStore ==
    \A t \in Adapters :
        (pc[t] = "done" /\ outcome[t].method = "api") =>
            /\ goodSeen[t] = 1
            /\ GoodResponse(last[t])
            /\ ~storeCalled[t]
            /\ ~wroteJson[t]
            /\ ~wroteText[t]

\* A call ends with method = api on its third attempt while the other
\* adapter's call has written the files.
C2_Witness ==
    \E t \in Adapters :
        /\ pc[t] = "done" /\ outcome[t].method = "api" /\ posts[t] = 3
        /\ jsonFile.state = "list" /\ Len(textFile) = 1

C4_TerminatesWithOutcome ==
    /\ \A t \in Adapters : (pc[t] # "idle") ~> (pc[t] = "done")
    /\ [](\A t \in Adapters :
            pc[t] = "done" =>
              /\ outcome[t].method \in {"api", "local_storage", "failed"}
              /\ outcome[t].method = "api" <=> ~storeCalled[t]
              /\ outcome[t].method = "local_storage"
                     <=> (storeCalled[t] /\ ~ioRaised[t])
              /\ outcome[t].method = "failed" <=> ioRaised[t])

\* A call ends in STORE_FAILED after an unexpected exception in attempt 1.
C4_Witness ==
    \E t \in Adapters :
        /\ pc[t] = "done" /\ outcome[t].method = "failed"
        /\ last[t].exc = "ValueError" /\ posts[t] = 1

\* C5: a finished call all of whose max_retries >= 1 attempts were answered
\* by a status other than 200, and whose local I/O worked, has the outcome
\* success = true, method = local_storage, and the JSON file holds an entry
\* with the machine, code and description of its report.
C5_FallbackComplete ==
    \A t \in Adapters :
        ( /\ pc[t] = "done"
          /\ max_retries >= 1 /\ posts[t] = max_retries /\ onlyHttpErrors[t]
          /\ ~ioRaised[t] /\ jsonFile.state # "malformed" ) =>
            /\ outcome[t].success = TRUE
            /\ outcome[t].method = "local_storage"
            /\ jsonFile.state = "list"
            /\ \E i \in 1..Len(jsonFile.list) :
                   /\ jsonFile.list[i].machine = report[t].machine
                   /\ jsonFile.list[i].code = report[t].code
                   /\ jsonFile.list[i].description = report[t].description

\* C6: once an attempt has raised an unexpected exception the call is in
\* _store_locally or finished through it: it is in no further attempt and in
\* no sleep, and it has slept only between the attempts before that one.
C6_UnexpectedAborts ==
    \A t \in Adapters :
        RaisedUnexpected(last[t]) =>
            /\ pc[t] \in StorePhase \cup {"done"}
            /\ pc[t] = "done" => storeCalled[t] /\ outcome[t].method # "api"
            /\ sleeps[t] = posts[t] - 1

\* requests.post raises an unexpected exception in attempt 1 of 3 and the
\* call ends in the local store after that single attempt.
C6_Witness ==
    \E t \in Adapters :
        /\ last[t].kind = "raise" /\ last[t].exc = "ValueError"
        /\ posts[t] = 1 /\ max_retries = 3
        /\ pc[t] = "done" /\ outcome[t].method = "local_storage"

\* A response that is not the expected structured reply: a status other than
\* 200, or a 200 body that is not a JSON object.
BadResponse(res) ==
    res.kind = "response" /\ (res.status # 200 \/ res.body.kind # "object")

\* C7: an attempt answered by a status other than 200, or by 200 with a body
\* that is not the expected structured reply, is never a success, and while
\* attempts remain the call waits for, or is about to make, its next attempt.
C7_BadResponseRetried ==
    \A t \in Adapters :
        BadResponse(last[t]) =>
            /\ outcome[t].method # "api"
            /\ posts[t] < max_retries => pc[t] \in {"sleep", "post"}

\* C8: an outcome with method = api comes from a response with status 200 and
\* a JSON body that has a textResponse field.
C8_SuccessNeedsTextResponse ==
    \A t \in Adapters :
        (pc[t] = "done" /\ outcome[t].method = "api") =>
            /\ last[t].kind = "response" /\ last[t].status = 200
            /\ last[t].body.kind = "object"
            /\ last[t].body.textResponse # Missing

\* C8 as amended: an outcome with method = api comes from a response with
\* status 200 and a JSON object as body; a 200 JSON object without
\* textResponse is accepted too, with anythingllm_response = "".
C8_SuccessNeedsJsonObject ==
    \A t \in Adapters :
        /\ (pc[t] = "done" /\ outcome[t].method = "api") =>
               /\ last[t].kind = "response" /\ last[t].status = 200
               /\ last[t].body.kind = "object"
        /\ ( /\ last[t].kind = "response" /\ last[t].status = 200
             /\ last[t].body.kind = "object"
             /\ last[t].body.textResponse = Missing ) =>
               /\ pc[t] = "done" /\ outcome[t].method = "api"
               /\ outcome[t].anythingllm_response = ""

\* A 200 JSON object without textResponse has been accepted.
C8_Witness ==
    \E t \in Adapters :
        /\ pc[t] = "done" /\ outcome[t].method = "api"
        /\ last[t].body = BareBody /\ last[t].status = 200

\* C9: the wait before the next attempt is the long backoff after a timeout
\* and the standard backoff after any other retryable failure.
C9_BackoffSelection ==
    \A t \in Adapters :
        pc[t] = "sleep" =>
            wait_time[t] =
                (IF last[t].kind = "raise" /\ last[t].exc = "Timeout"
                 THEN LongWait ELSE ShortWait)

\* C10: a finished call has success = false exactly when its method is
\* failed, which needs an I/O step of the local store to have raised after no
\* attempt succeeded; whatever the attempts did, a store that ran without an
\* error gives success = true.
C10_FailureOnlyFromStore ==
    \A t \in Adapters :
        pc[t] = "done" =>
            /\ outcome[t].success = FALSE <=> outcome[t].method = "failed"
            /\ outcome[t].method = "failed" =>
                   goodSeen[t] = 0 /\ storeCalled[t] /\ ioRaised[t]
            /\ ~ioRaised[t] => outcome[t].success = TRUE

\* All attempts fail with a mix of errors and the JSON rewrite raises.
C10_Witness ==
    \E t \in Adapters :
        /\ pc[t] = "done" /\ outcome[t].method = "failed"
        /\ posts[t] = 3 /\ last[t].exc = "ConnectionError" /\ ~onlyHttpErrors[t]
        /\ jsonFile.state = "malformed"

\* C11: after N calls of _store_locally made one after another, all of them
\* successful, starting from no files, the JSON array has exactly N elements,
\* the i-th with the machine, code and description of the i-th call, and the
\* text file has exactly N blocks in the same order, each ending with the
\* rule of 60 characters.
C11_SequentialAppend ==
    ( /\ \A t \in Adapters : pc[t] \in {"idle", "post", "sleep"}
      /\ storeLog # <<>>
      /\ \A i \in 1..Len(storeLog) : storeLog[i].method = "local_storage" ) =>
        /\ jsonFile.state = "list"
        /\ Len(jsonFile.list) = Len(storeLog)
        /\ Len(textFile) = Len(storeLog)
        /\ \A i \in 1..Len(storeLog) :
               /\ jsonFile.list[i].machine = storeLog[i].report.machine
               /\ jsonFile.list[i].code = storeLog[i].report.code
               /\ jsonFile.list[i].description = storeLog[i].report.description
               /\ textFile[i].machine = storeLog[i].report.machine
               /\ textFile[i].code = storeLog[i].report.code
               /\ textFile[i].description = storeLog[i].report.description
               /\ textFile[i].rule = 60

\* Two calls, first the MQTT callback's and then the generator's, have been
\* stored one after the other.
C11_Witness ==
    /\ \A t \in Adapters : pc[t] = "idle"
    /\ Len(storeLog) = 2
    /\ storeLog[1].method = "local_storage" /\ storeLog[2].method = "local_storage"
    /\ storeLog[1].report.machine = "Pump_02"
    /\ storeLog[2].report.machine = "Press_01"
    /\ Len(jsonFile.list) = 2 /\ Len(textFile) = 2

\* C12: the rewrite of the JSON file by a call replaces the file with the
\* list that call read earlier plus its own record, whatever the file holds
\* at the time of the rewrite; so entries another call wrote in between are
\* dropped, and a state in which both calls have returned success = true,
\* method = local_storage and the JSON array holds one report is reached.
C12_RewriteFromStaleRead ==
    [][\A t \in Adapters :
          (pc[t] = "store_write" /\ pc'[t] = "store_append") =>
              /\ jsonFile'.state = "list"
              /\ jsonFile'.list =
                     Append(errors[t], ErrorData(report[t], stored_timestamp[t]))]_vars

\* Both adapters' calls have returned success = true, method = local_storage
\* and the JSON array holds fewer entries than that: one report of the two,
\* while the text file holds both.
C12_Witness ==
    /\ \A t \in Adapters :
           /\ pc[t] = "done" /\ outcome[t].success = TRUE
           /\ outcome[t].method = "local_storage"
    /\ jsonFile.state = "list" /\ Len(jsonFile.list) = 1
    /\ Len(textFile) = 2
    /\ \E t \in Adapters :
           \A i \in 1..Len(jsonFile.list) :
               jsonFile.list[i].machine # report[t].machine

\* C13: a get_stored_errors call returns (it does not raise) and leaves both
\* files as they are; it returns the empty list when the day's file is
\* absent, the stored array when the file can be read and parsed, and the
\* empty list when the file exists but cannot be read or parsed.
C13_ReadStoredTotal ==
    [][reads' # reads =>
          /\ UNCHANGED fileVars
          /\ readResult'.returned /\ ~readResult'.raised
          /\ jsonFile.state = "absent" => readResult'.value = <<>>
          /\ (jsonFile.state = "list" /\ readResult'.io) =>
                 readResult'.value = jsonFile.list
          /\ (jsonFile.state = "malformed" \/
                 (jsonFile.state = "list" /\ ~readResult'.io)) =>
                 readResult'.value = <<>>]_vars

\* get_stored_errors has been called on a file that json.load rejects and
\* has returned the empty list.
C13_Witness ==
    /\ readResult.saw = "malformed"
    /\ readResult.returned /\ readResult.value = <<>>
    /\ jsonFile.state = "malformed"

\* C14: _store_locally always returns a dictionary: when one of its I/O
\* steps (directory creation, reading the JSON file, rewriting it, appending
\* to the text file) raised, success = false, method = failed and the error
\* message; otherwise, after both files were written, success = true,
\* method = local_storage and the names of both files.
C14_StoreNeverRaises ==
    \A t \in Adapters :
        /\ storeCalled[t] => pc[t] \in {"store_write", "store_append", "done"}
        /\ (pc[t] = "done" /\ storeCalled[t]) =>
               IF ioRaised[t]
               THEN /\ outcome[t].success = FALSE
                    /\ outcome[t].method = "failed"
                    /\ outcome[t].error = "str(e)"
               ELSE /\ outcome[t].success = TRUE
                    /\ outcome[t].method = "local_storage"
                    /\ outcome[t].json_file = JsonFilename
                    /\ outcome[t].import_file = ImportFilename
                    /\ outcome[t].error = Missing
                    /\ wroteJson[t] /\ wroteText[t]

\* The append to the text file raises after the JSON file was rewritten, and
\* the call returns method = failed with the error message.
C14_Witness ==
    \E t \in Adapters :
        /\ pc[t] = "done" /\ storeCalled[t] /\ ioRaised[t]
        /\ wroteJson[t] /\ ~wroteText[t]
        /\ outcome[t].method = "failed" /\ outcome[t].error = "str(e)"

\* C15: _store_locally starts from an empty list only when the day's JSON
\* file is absent; when the file exists and json.load rejects its content,
\* the call ends with success = false, method = failed and leaves both files
\* as they are.
C15_MalformedFailsLoudly ==
    [][\A t \in Adapters :
          (pc[t] = "store" /\ pc'[t] # "store") =>
              /\ (pc'[t] = "store_write" /\ errors'[t] = <<>>) =>
                     jsonFile.state = "absent"
              /\ jsonFile.state = "malformed" =>
                     /\ pc'[t] = "done"
                     /\ outcome'[t].success = FALSE
                     /\ outcome'[t].method = "failed"
                     /\ UNCHANGED fileVars]_vars

\* After a first call left the JSON file truncated, a second call has found
\* it malformed and failed without touching it.
C15_Witness ==
    /\ Len(storeLog) = 1 /\ storeLog[1].method = "failed"
    /\ jsonFile.state = "malformed"
    /\ \E t \in Adapters :
           /\ pc[t] = "done" /\ storeCalled[t] /\ errors[t] = <<>>
           /\ outcome[t].method = "failed"

\* C16: for a call that ended in the local store, the timestamp of the
\* record it wrote to the JSON file and of its block in the text file is the
\* timestamp embedded in the message of its HTTP attempts.
C16_TimestampAssignedOnce ==
    \A t \in Adapters :
        (pc[t] = "done" /\ outcome[t].method = "local_storage") =>
            /\ jsonFile.list[Len(jsonFile.list)].timestamp = timestamp[t]
            /\ textFile[Len(textFile)].timestamp = timestamp[t]

\* What a call in progress has got back so far: the results of its own HTTP
\* attempts and of its own file accesses.
OwnResults(t) ==
    <<attempt[t], last[t], posts[t], goodSeen[t], storeCalled[t], wroteJson[t],
      wroteText[t], ioRaised[t]>>

\* Where the call stands: its position, the backoff chosen, the sleeps made
\* and its outcome.
Course(t) == <<pc[t], wait_time[t], sleeps[t], outcome[t]>>

\* The locals of a call.
Locals(t) ==
    <<pc[t], attempt[t], report[t], last[t], posts[t], goodSeen[t],
      onlyHttpErrors[t], wait_time[t], sleeps[t], errors[t], storeCalled[t],
      wroteJson[t], wroteText[t], ioRaised[t], outcome[t]>>

\* C17: calls in flight on the shared client are independent: two calls that
\* got the same results from their own HTTP attempts and file accesses stand
\* at the same position with the same backoff, number of sleeps and outcome,
\* whatever the other call went through; and a step of one call changes
\* nothing in the locals of the other.
C17_CallsIndependent ==
    /\ [](\A t \in Adapters, u \in Adapters :
             (pc[t] # "idle" /\ pc[u] # "idle"
                  /\ OwnResults(t) = OwnResults(u)) =>
                 Course(t) = Course(u))
    /\ [][\A t \in Adapters, u \in Adapters :
             (t # u /\ Locals(t)' # Locals(t)) => Locals(u)' = Locals(u)]_vars

\* Two calls are in flight with different histories: one waits after a
\* timeout in its second attempt, the other has succeeded at once.
C17_Witness ==
    \E t \in Adapters, u \in Adapters :
        /\ pc[t] = "sleep" /\ posts[t] = 2 /\ last[t].exc = "Timeout"
        /\ pc[u] = "done" /\ outcome[u].method = "api" /\ posts[u] = 1

\* C18: within one call the HTTP attempts come one after another and are
\* bounded: the attempt about to be issued has the number following the last
\* one issued (1, 2, ... without gaps), it is issued only after the previous
\* attempt has completed with a failure and the sleep after it is over, and
\* the number of POSTs never exceeds max_retries.
C18_AttemptsSequentialBounded ==
    \A t \in Adapters :
        /\ posts[t] <= max_retries
        /\ pc[t] = "post" => (posts[t] = attempt[t] /\ sleeps[t] = posts[t])
        /\ pc[t] = "sleep" => (posts[t] = attempt[t] + 1 /\ sleeps[t] = attempt[t])
        /\ (pc[t] \in {"post", "sleep"} /\ posts[t] > 0) =>
               /\ last[t] # NoResult
               /\ ~GoodResponse(last[t])
               /\ goodSeen[t] = 0
        /\ (pc[t] = "done" /\ outcome[t].method = "api") =>
               outcome[t].attempt = posts[t]

\* The third and last attempt of a call is about to be issued after two
\* failed attempts and two sleeps.
C18_Witness ==
    \E t \in Adapters :
        /\ pc[t] = "post" /\ posts[t] = 2 /\ attempt[t] = 2 /\ sleeps[t] = 2
        /\ max_retries = 3 /\ ~GoodResponse(last[t])

\* The well-formed MQTT messages.
WellFormed == {msg \in MqttMessages : msg.payload.kind = "object"}

\* C19: a malformed MQTT message (payload not decodable, not JSON, or JSON
\* that is not an object) is logged and dropped: on_message does not raise,
\* makes no send_machine_error call and changes neither file, and after it a
\* well-formed message can still be processed.
C19_MalformedDropped ==
    /\ [](mqttLog # "raised")
    /\ []((mqttDropped > 0 /\ pc["mqtt"] = "idle" /\ calls < MaxCalls) =>
             ENABLED (\E msg \in WellFormed : OnMessage(msg)))
    /\ [][mqttDropped' # mqttDropped =>
             /\ mqttLog' \in {"logged JSONDecodeError", "logged Exception"}
             /\ UNCHANGED <<callVars, fileVars, calls>>]_vars

\* After two malformed messages were dropped, the last one with a payload
\* that is JSON but no object, a well-formed message has been delivered.
C19_Witness ==
    /\ mqttDropped = 2 /\ mqttLog = "logged Exception"
    /\ pc["mqtt"] = "done" /\ outcome["mqtt"].method = "api"
    /\ report["mqtt"].machine = "Pump_02" /\ report["mqtt"].code = "E002"
    /\ jsonFile = AbsentFile

\* C20: from the start of a send_machine_error call made by the manual_error
\* or test_error handler to its outcome, the event loop stays with the
\* handler: no other coroutine is resumed and none takes a step.
C20_DeliverBlocksLoop ==
    /\ [](pc["handler"] \in InCall =>
             (loopOwner = "manual_error" /\ handlerPc = "running"))
    /\ [][pc["handler"] \in InCall =>
             /\ coSteps' = coSteps
             /\ loopOwner' = "manual_error"]_vars

\* The handler's call is in its second sleep, and another coroutine, which
\* took a step before the call started, has taken none since.
C20_Witness ==
    /\ pc["handler"] = "sleep" /\ sleeps["handler"] = 1 /\ posts["handler"] = 2
    /\ loopOwner = "manual_error"
    /\ coSteps = 1

\* C21: clearing auto_generator_enabled (stop, restart, shutdown) while the
\* generator thread is inside send_machine_error changes nothing of the
\* call: the step that changes the flag leaves the call and the files as they
\* are, the call can still take its next step, it reaches _store_locally only
\* after max_retries attempts or an unexpected exception, and it ends with
\* method api, local_storage or failed, the latter two only through
\* _store_locally.
C21_SignalDoesNotAbort ==
    /\ []((pc["generator"] \in StorePhase \/ storeCalled["generator"]) =>
              \/ posts["generator"] = max_retries
              \/ RaisedUnexpected(last["generator"]))
    /\ [](pc["generator"] = "done" =>
              /\ outcome["generator"].method \in {"api", "local_storage", "failed"}
              /\ outcome["generator"].method = "api" => GoodResponse(last["generator"])
              /\ outcome["generator"].method # "api" => storeCalled["generator"])
    /\ [](pc["generator"] # "idle" => ENABLED (GenCallStep \/ GenReturn))
    /\ [][auto_generator_enabled' # auto_generator_enabled =>
              UNCHANGED <<callVars, fileVars, calls>>]_vars

\* The application has shut down and the flag is cleared while the call of
\* the generator thread, two attempts made, is about to issue its third.
C21_Witness ==
    /\ ~auto_generator_enabled /\ lifespanPc = "shutdown"
    /\ genPc[FirstThread] = "deliver"
    /\ pc["generator"] = "post" /\ posts["generator"] = 2 /\ max_retries = 3

\* C22: there is a single generator thread: whatever startup, start, stop
\* and restart requests were made, no two auto_error_generator threads are
\* generating reports at the same time (no two of them are inside their call
\* of send_machine_error together).
C22_SingleGenerator ==
    Cardinality({g \in GenThreads : genPc[g] = "deliver"}) <= 1

\* C23: backoff sleeps occur only between attempts: a call is in time.sleep
\* only after a failed attempt that was retryable and was not the last one
\* (fewer than max_retries attempts made); once a call has left the retry
\* loop, by exhausting its attempts, by a success or by an unexpected
\* exception, it has slept exactly once less than it has posted, so a call
\* that made all max_retries attempts slept max_retries - 1 times.
C23_SleepsOnlyBetweenAttempts ==
    \A t \in Adapters :
        /\ pc[t] = "sleep" =>
               /\ posts[t] < max_retries
               /\ last[t] # NoResult
               /\ ~GoodResponse(last[t])
               /\ ~RaisedUnexpected(last[t])
        /\ (pc[t] \in StorePhase \cup {"sleep", "done"} /\ posts[t] >= 1) =>
               sleeps[t] = posts[t] - 1
        /\ (pc[t] \in StorePhase \cup {"done"} /\ posts[t] = 0) => sleeps[t] = 0
        /\ (pc[t] \in StorePhase /\ posts[t] = max_retries /\ max_retries >= 1) =>
               sleeps[t] = max_retries - 1

\* A call has made all three attempts, the last one a timeout, slept twice
\* and is entering _store_locally.
C23_Witness ==
    \E t \in Adapters :
        /\ pc[t] = "store" /\ posts[t] = 3 /\ max_retries = 3 /\ sleeps[t] = 2
        /\ last[t].exc = "Timeout"

\* C24: every record that _store_locally writes to machine_errors_<D>.json
\* has a timestamp whose calendar date is D, whatever the time of the call:
\* the day in the file name is the day of the record's timestamp.
C24_DayBucketConsistent ==
    \A t \in Adapters :
        wroteJson[t] => DateOf(stored_timestamp[t]) = date_str[t]

\* The entries of the JSON array of the day (none while the file is absent).
JsonEntries == IF jsonFile.state = "list" THEN Len(jsonFile.list) ELSE 0

\* No call is between its JSON rewrite and its return.
StoreQuiet == \A t \in Adapters : pc[t] \in {"idle", "post", "sleep", "store"}

\* The logged _store_locally calls that got as far as the JSON rewrite / as
\* the text append.
LoggedJsonWrites == {i \in 1..Len(storeLog) : storeLog[i].wroteJson}
LoggedTextWrites == {i \in 1..Len(storeLog) : storeLog[i].wroteText}

C26_NoRetriesNoRequest ==
    max_retries <= 0 =>
        /\ posts["generator"] = 0
        /\ sleeps["generator"] = 0
        /\ last["generator"] = NoResult
        /\ pc["generator"] \in StorePhase \cup {"idle", "done"}
        /\ pc["generator"] = "done" =>
               /\ storeCalled["generator"]
               /\ outcome["generator"].method \in {"local_storage", "failed"}

\* With a negative max_retries a call has ended in the local store without
\* any HTTP request.
C26_Witness ==
    /\ max_retries < 0
    /\ pc["generator"] = "done" /\ outcome["generator"].method = "local_storage"
    /\ posts["generator"] = 0 /\ wroteJson["generator"] /\ wroteText["generator"]

\* C27: _connect_with_retry makes at most max_retries + 1 calls of
\* connect(): it returns True right after the first call that succeeded and
\* calls connect() no more, it returns False only after max_retries + 1
\* failed calls, and it waits min(2^attempt, 30) seconds only between two
\* calls, never after the last one.
C27_ConnectWithRetryBounded ==
    /\ [](connectCalls <= opc_max_retries + 1)
    /\ [](opcPc = "sleep" =>
              /\ connectCalls = opcAttempt + 1
              /\ opcAttempt < opc_max_retries
              /\ opcSleeps = opcAttempt
              /\ opcWait <= MaxBackoff
              /\ 2 ^ opcAttempt <= MaxBackoff => opcWait = 2 ^ opcAttempt
              /\ 2 ^ opcAttempt > MaxBackoff => opcWait = MaxBackoff)
    /\ [](opcPc = "connect" => (connectCalls = opcAttempt /\ opcSleeps = opcAttempt))
    /\ [](opcPc = "done" =>
              /\ opcResult \in BOOLEAN
              /\ opcSleeps = connectCalls - 1
              /\ opcResult = FALSE => connectCalls = opc_max_retries + 1)
    /\ [][(opcPc' = "sleep" /\ opcPc # "sleep") =>
              /\ connectCalls' = connectCalls + 1
              /\ opcLast' \in {"timeout", "error"}]_vars
    /\ [][(opcPc' = "done" /\ opcPc # "done") =>
              /\ connectCalls' = connectCalls + 1
              /\ opcResult' = TRUE <=> opcLast' = "ok"
              /\ opcResult' = TRUE => connected']_vars
    /\ [][opcPc = "done" =>
              UNCHANGED <<opcPc, opcResult, connectCalls, opcSleeps>>]_vars

\* With max_retries = 6 the task has failed six times and is in its sixth
\* wait, the capped one of 30 seconds.
C27_Witness ==
    /\ opc_max_retries = 6 /\ opcPc = "sleep" /\ opcAttempt = 5
    /\ connectCalls = 6 /\ opcSleeps = 5 /\ opcWait = MaxBackoff

\* A step that calls connect().
ConnectCalled ==
    connectCalls' # connectCalls \/ reconnectCalls' # reconnectCalls

\* C28: retry_count is incremented only by a connect() call that fails with
\* an exception other than the timeout and reset to 0 only by a connect()
\* call that succeeds; reconnect_failed_servers calls connect() only for a
\* server that is not connected and has retry_count < max_retries; so once
\* _connect_with_retry is over and the server is disconnected with
\* retry_count >= max_retries, no reconnect request connects it or changes
\* retry_count any more.
C28_RetryBudget ==
    /\ [][retry_count' > retry_count =>
              /\ ConnectCalled
              /\ opcLast' = "error"
              /\ retry_count' = retry_count + 1]_vars
    /\ [][retry_count' < retry_count =>
              /\ ConnectCalled
              /\ opcLast' = "ok"
              /\ connected'
              /\ retry_count' = 0]_vars
    /\ [][(ConnectCalled /\ opcLast' = "timeout") =>
              UNCHANGED <<retry_count, connected>>]_vars
    /\ [][(ConnectCalled /\ opcLast' = "error") =>
              retry_count' = retry_count + 1]_vars
    /\ [][reconnectCalls' # reconnectCalls =>
              ~connected /\ retry_count < opc_max_retries]_vars
    /\ [][(opcPc = "done" /\ ~connected /\ retry_count >= opc_max_retries) =>
              UNCHANGED <<connected, retry_count, reconnectCalls, connectCalls>>]_vars

\* After _connect_with_retry was exhausted by three failures that were no
\* timeouts, two reconnect requests have been made and none called connect().
C28_Witness ==
    /\ opc_max_retries = 2 /\ opcPc = "done" /\ opcResult = FALSE
    /\ retry_count = 3 /\ connectCalls = 3
    /\ reconnects = 2 /\ reconnectCalls = 0 /\ ~connected

\* C29: a stop is eventually effective: while auto_generator_enabled stays
\* false the generator thread, if alive, eventually ends; a step the thread
\* takes while the flag is false never leads into a new delivery; a thread
\* that reads the flag as false in its initial delay ends without having
\* submitted any report; and a thread that has ended submits nothing more.
C29_StopEffective ==
    /\ (~auto_generator_enabled /\ Alive(FirstThread)) ~>
           (auto_generator_enabled \/ ~Alive(FirstThread))
    /\ [][~auto_generator_enabled =>
              ~(genPc[FirstThread] # "deliver" /\ genPc'[FirstThread] = "deliver")]_vars
    /\ [][(~auto_generator_enabled /\ genPc[FirstThread] = "delay"
                /\ genPc'[FirstThread] # "delay") =>
              /\ genPc'[FirstThread] = "exited"
              /\ error_count'[FirstThread] = 0
              /\ calls' = 0]_vars
    /\ [][genPc[FirstThread] = "exited" =>
              /\ genPc'[FirstThread] = "exited"
              /\ UNCHANGED <<error_count, calls, callVars, fileVars>>]_vars

\* After a stop request the generator thread has ended, having delivered one
\* report into the local store.
C29_Witness ==
    /\ genPc[FirstThread] = "exited" /\ error_count[FirstThread] = 1
    /\ ~auto_generator_enabled /\ lifespanPc = "running"
    /\ JsonEntries = 1 /\ pc["generator"] = "idle"

\* The occurrences of a socket in clients.
Occurrences(l, x) == Cardinality({i \in 1..Len(l) : l[i] = x})

\* C30: under every interleaving of websocket_endpoint coroutines and
\* broadcast calls, no broadcast call raises, and when a broadcast call
\* completes every socket whose send failed is absent from clients while
\* every socket whose send succeeded and whose coroutine has not removed it
\* is in clients exactly once.
C30_BroadcastNeverRaises ==
    /\ [](\A b \in Broadcasters : bPc[b] # "raised")
    /\ [][\A b \in Broadcasters :
              (bPc[b] = "send" /\ bPc'[b] = "done") =>
                  /\ \A i \in 1..Len(bDisc'[b]) : ~InList(clients', bDisc'[b][i])
                  /\ \A ws \in bSent'[b] :
                         wsPc'[ws] \in {"receive", "broadcast"} =>
                             Occurrences(clients', ws) = 1]_vars

====
